---- MODULE Spec2Model ----
(***************************************************************************)
(* Model of cupy/cuda/thrust.pyx: the memory manager handed to the Thrust  *)
(* backend (cupy_malloc / cupy_free on a _MemoryManager) and the three     *)
(* dtype dispatchers sort, lexsort and argsort.                            *)
(*                                                                         *)
(* The backend routines (_sort[T], _lexsort[T], _argsort[T] and the fp16   *)
(* variants) are extern: between its invocation and its end the backend    *)
(* may issue any sequence of cupy_malloc / cupy_free callbacks with any    *)
(* arguments, and it ends either by returning or by throwing a C++         *)
(* exception.                                                              *)
(***************************************************************************)
EXTENDS Integers, Sequences, FiniteSets, TLC

\* ---------------------------------------------------------------- bounds
NumCalls == 2          \* top-level calls in the concurrent specification
MaxAddr == 2           \* device addresses the external allocator hands out
MaxAllocs == 2         \* allocation objects created in one behaviour
MaxAllocCalls == 2     \* calls made to memory.alloc in one behaviour
ConcAllocs == 1        \* the same two, where several calls interleave
ConcAllocCalls == 1

Calls == 1..NumCalls
Addrs == 1..MaxAddr
Ptrs == 0..MaxAddr     \* 0 is <char *>0
Sizes == {0, 1}        \* cupy_malloc only tests size == 0

\* ----------------------------------------------------- program constants
MinComputeCapability == 53
MinRuntimeVersion == 9020

\* Values device.get_compute_capability() / runtime.runtimeGetVersion()
\* may report: one below, one at and one above each threshold.
Capabilities == {MinComputeCapability - 1, MinComputeCapability, MinComputeCapability + 7}
Versions == {MinRuntimeVersion - 10, MinRuntimeVersion, MinRuntimeVersion + 980}

\* The 14 dtypes the chains compare against, in the order of the chain.
SupportedDtypes ==
    {"int8", "uint8", "int16", "uint16", "int32", "uint32", "int64",
     "uint64", "float16", "float32", "float64", "complex64", "complex128",
     "bool"}

\* Descriptors equal to none of them.
OtherDtypes == {"datetime64", "object"}

Dtypes == SupportedDtypes \cup OtherDtypes

\* Descriptors used where several calls interleave.
FewDtypes == {"int32"}

NoInst == <<"none", "none">>

VARIABLES
    cc,         \* device.get_compute_capability()
    ver,        \* runtime.runtimeGetVersion()
    pc,         \* pc[c]: "idle", "backend", "returned", "raised"
    op,         \* op[c]: which entry point call c is
    dtype,      \* dtype[c]: the descriptor call c was given
    error,      \* error[c]: the exception the call raised to its caller
    invoked,    \* invoked[c]: backend instantiations invoked, in order
    mem,        \* mem[c]: the manager passed to the backend (0: none)
    managers,   \* _MemoryManager objects that exist
    memory,     \* memory[b]: the dict of manager b, ptr -> allocation id
    allocs,     \* allocation objects ever returned by memory.alloc
    allocCalls, \* calls made to the external allocator memory.alloc
    last        \* the last callback: what it was given, returned and raised

vars == <<cc, ver, pc, op, dtype, error, invoked, mem, managers, memory,
          allocs, allocCalls, last>>

\* ------------------------------------------------------------ the dict
EmptyDict == [k \in {} |-> 0]

\* mm.memory[k] = v
DictSet(d, k, v) == [x \in (DOMAIN d) \cup {k} |-> IF x = k THEN v ELSE d[x]]

\* A deletion that would drop every entry (mm.memory.clear()).
DictClear(d, k) == EmptyDict

\* del mm.memory[k] on a key that is present
DictDel(d, k) == [x \in (DOMAIN d) \ {k} |-> d[x]]

\* A removal that tolerates an absent key (mm.memory.pop(k, None)).
KeyMissingQuiet(d, k) == FALSE

\* del mm.memory[k] raises KeyError exactly when k is not a key
KeyMissing(d, k) == k \notin DOMAIN d

Values(d) == {d[k] : k \in DOMAIN d}

\* -------------------------------------------------- allocation objects
\* allocs[i] is the i-th object memory.alloc returned: its address, the
\* manager whose dict received it, how many times it has been released
\* (its last reference dropped) and, when a cupy_free call removed it,
\* the address that call was given.
NewAlloc(p, b) == [ptr |-> p, by |-> b, rel |-> 0, freed |-> 0]

\* Dropping the last reference to the objects ids (the dict held the only
\* one) releases each; via is the address given to cupy_free, 0 otherwise.
Release(as, ids, via) ==
    [i \in DOMAIN as |->
        IF i \in ids THEN [as[i] EXCEPT !.rel = @ + 1, !.freed = via]
        ELSE as[i]]

LiveIds == {i \in DOMAIN allocs : allocs[i].rel = 0}

\* The external allocator never hands out an address that is still in use.
FreeAddrs == Addrs \ {allocs[i].ptr : i \in LiveIds}

NoCallback == [kind |-> "none", arg |-> 0, ret |-> 0, raised |-> "none"]

Callback(k, a, r, e) == [kind |-> k, arg |-> a, ret |-> r, raised |-> e]

\* --------------------------------------------------------- _MemoryManager
\* One module-level manager used by every call.
BridgeShared(c) == 1

\* mem_obj = _MemoryManager(): every call constructs its own object.
BridgeOf(c) == c

Init ==
    /\ cc \in Capabilities
    /\ ver \in Versions
    /\ pc = [c \in Calls |-> "idle"]
    /\ op = [c \in Calls |-> "none"]
    /\ dtype = [c \in Calls |-> "none"]
    /\ error = [c \in Calls |-> "none"]
    /\ invoked = [c \in Calls |-> <<>>]
    /\ mem = [c \in Calls |-> 0]
    /\ managers = {}
    /\ memory = [b \in Calls |-> EmptyDict]
    /\ allocs = <<>>
    /\ allocCalls = 0
    /\ last = NoCallback

\* ------------------------------------------------------------ callbacks
\* cupy_malloc without its size == 0 test.
cupy_malloc_nocheck(c, size) ==
    /\ pc[c] = "backend"
    /\ allocCalls < MaxAllocCalls
    /\ allocCalls' = allocCalls + 1
    /\ \/ /\ last' = Callback("malloc", size, 0, "OutOfMemoryError")
          /\ UNCHANGED <<memory, allocs>>
       \/ \E p \in FreeAddrs :
             /\ Len(allocs) < MaxAllocs
             /\ allocs' = Append(allocs, NewAlloc(p, mem[c]))
             /\ memory' = [memory EXCEPT ![mem[c]] = DictSet(@, p, Len(allocs) + 1)]
             /\ last' = Callback("malloc", size, p, "none")
    /\ UNCHANGED <<cc, ver, pc, op, dtype, error, invoked, mem, managers>>

\* cdef public char* cupy_malloc(void *m, size_t size) with gil
\* The function has no exception value: an exception raised by
\* memory.alloc cannot leave it as an exception.  The function returns
\* its default, 0, to the backend, which goes on.
cupy_malloc(c, size) ==
    /\ pc[c] = "backend"
    /\ IF size = 0
       THEN /\ last' = Callback("malloc", size, 0, "none")
            /\ UNCHANGED <<memory, allocs, allocCalls>>
       ELSE /\ allocCalls < MaxAllocCalls
            /\ allocCalls' = allocCalls + 1
            /\ \/ \* memory.alloc(size) raises
                  /\ last' = Callback("malloc", size, 0, "OutOfMemoryError")
                  /\ UNCHANGED <<memory, allocs>>
               \/ \* mem = memory.alloc(size); mm.memory[mem.ptr] = mem
                  \E p \in FreeAddrs :
                     LET b == mem[c]
                         id == Len(allocs) + 1
                         nd == DictSet(memory[b], p, id)
                         dropped == Values(memory[b]) \ Values(nd)
                     IN  /\ Len(allocs) < MaxAllocs
                         /\ allocs' = Append(Release(allocs, dropped, 0), NewAlloc(p, b))
                         /\ memory' = [memory EXCEPT ![b] = nd]
                         /\ last' = Callback("malloc", size, p, "none")
    /\ UNCHANGED <<cc, ver, pc, op, dtype, error, invoked, mem, managers>>

\* cdef public void cupy_free(void *m, char* ptr) with gil
\* A void function without exception value: the KeyError of the del
\* statement cannot leave it either and the function returns.
cupy_free(c, ptr) ==
    /\ pc[c] = "backend"
    /\ IF ptr = 0
       THEN /\ last' = Callback("free", ptr, 0, "none")
            /\ UNCHANGED <<memory, allocs>>
       ELSE LET b == mem[c] IN
            IF KeyMissing(memory[b], ptr)
            THEN /\ last' = Callback("free", ptr, 0, "KeyError")
                 /\ UNCHANGED <<memory, allocs>>
            ELSE LET nd == DictDel(memory[b], ptr)
                     dropped == Values(memory[b]) \ Values(nd)
                 IN  /\ memory' = [memory EXCEPT ![b] = nd]
                     /\ allocs' = Release(allocs, dropped, ptr)
                     /\ last' = Callback("free", ptr, 0, "none")
    /\ UNCHANGED <<cc, ver, pc, op, dtype, error, invoked, mem, managers, allocCalls>>

\* ------------------------------------------------------ the fp16 gate
\* int(device.get_compute_capability()) < 53 or
\*     runtime.runtimeGetVersion() < 9020
\* The same test with "and" in place of "or".
fp16_unsupported_both(c, v) == c < MinComputeCapability /\ v < MinRuntimeVersion

fp16_unsupported(c, v) == c < MinComputeCapability \/ v < MinRuntimeVersion

\* ------------------------------------------------- the if/elif chains
\* Each chain maps the descriptor to the backend routine it calls: the
\* routine's name and its template argument; NoInst is the else branch.
\* A sort chain whose else branch falls back to the float64 routine.
sort_dispatch_default(d) ==
    IF d = "int8" THEN <<"_sort", "cpy_byte">>
    ELSE IF d = "uint8" THEN <<"_sort", "cpy_ubyte">>
    ELSE IF d = "int16" THEN <<"_sort", "cpy_short">>
    ELSE IF d = "uint16" THEN <<"_sort", "cpy_ushort">>
    ELSE IF d = "int32" THEN <<"_sort", "cpy_int">>
    ELSE IF d = "uint32" THEN <<"_sort", "cpy_uint">>
    ELSE IF d = "int64" THEN <<"_sort", "cpy_long">>
    ELSE IF d = "uint64" THEN <<"_sort", "cpy_ulong">>
    ELSE IF d = "float16" THEN <<"_sort_fp16", "half">>
    ELSE IF d = "float32" THEN <<"_sort", "cpy_float">>
    ELSE IF d = "float64" THEN <<"_sort", "cpy_double">>
    ELSE IF d = "complex64" THEN <<"_sort", "cpy_complex64">>
    ELSE IF d = "complex128" THEN <<"_sort", "cpy_complex128">>
    ELSE IF d = "bool" THEN <<"_sort", "cpy_bool">>
    ELSE <<"_sort", "cpy_double">>

sort_dispatch(d) ==
    IF d = "int8" THEN <<"_sort", "cpy_byte">>
    ELSE IF d = "uint8" THEN <<"_sort", "cpy_ubyte">>
    ELSE IF d = "int16" THEN <<"_sort", "cpy_short">>
    ELSE IF d = "uint16" THEN <<"_sort", "cpy_ushort">>
    ELSE IF d = "int32" THEN <<"_sort", "cpy_int">>
    ELSE IF d = "uint32" THEN <<"_sort", "cpy_uint">>
    ELSE IF d = "int64" THEN <<"_sort", "cpy_long">>
    ELSE IF d = "uint64" THEN <<"_sort", "cpy_ulong">>
    ELSE IF d = "float16" THEN <<"_sort_fp16", "half">>
    ELSE IF d = "float32" THEN <<"_sort", "cpy_float">>
    ELSE IF d = "float64" THEN <<"_sort", "cpy_double">>
    ELSE IF d = "complex64" THEN <<"_sort", "cpy_complex64">>
    ELSE IF d = "complex128" THEN <<"_sort", "cpy_complex128">>
    ELSE IF d = "bool" THEN <<"_sort", "cpy_bool">>
    ELSE NoInst

lexsort_dispatch(d) ==
    IF d = "int8" THEN <<"_lexsort", "cpy_byte">>
    ELSE IF d = "uint8" THEN <<"_lexsort", "cpy_ubyte">>
    ELSE IF d = "int16" THEN <<"_lexsort", "cpy_short">>
    ELSE IF d = "uint16" THEN <<"_lexsort", "cpy_ushort">>
    ELSE IF d = "int32" THEN <<"_lexsort", "cpy_int">>
    ELSE IF d = "uint32" THEN <<"_lexsort", "cpy_uint">>
    ELSE IF d = "int64" THEN <<"_lexsort", "cpy_long">>
    ELSE IF d = "uint64" THEN <<"_lexsort", "cpy_ulong">>
    ELSE IF d = "float16" THEN <<"_lexsort_fp16", "half">>
    ELSE IF d = "float32" THEN <<"_lexsort", "cpy_float">>
    ELSE IF d = "float64" THEN <<"_lexsort", "cpy_double">>
    ELSE IF d = "complex64" THEN <<"_lexsort", "cpy_complex64">>
    ELSE IF d = "complex128" THEN <<"_lexsort", "cpy_complex128">>
    ELSE IF d = "bool" THEN <<"_lexsort", "cpy_bool">>
    ELSE NoInst

\* An argsort chain that sends int32 to the int64 routine.
argsort_dispatch_widen(d) ==
    IF d = "int8" THEN <<"_argsort", "cpy_byte">>
    ELSE IF d = "uint8" THEN <<"_argsort", "cpy_ubyte">>
    ELSE IF d = "int16" THEN <<"_argsort", "cpy_short">>
    ELSE IF d = "uint16" THEN <<"_argsort", "cpy_ushort">>
    ELSE IF d = "int32" THEN <<"_argsort", "cpy_long">>
    ELSE IF d = "uint32" THEN <<"_argsort", "cpy_uint">>
    ELSE IF d = "int64" THEN <<"_argsort", "cpy_long">>
    ELSE IF d = "uint64" THEN <<"_argsort", "cpy_ulong">>
    ELSE IF d = "float16" THEN <<"_argsort_fp16", "half">>
    ELSE IF d = "float32" THEN <<"_argsort", "cpy_float">>
    ELSE IF d = "float64" THEN <<"_argsort", "cpy_double">>
    ELSE IF d = "complex64" THEN <<"_argsort", "cpy_complex64">>
    ELSE IF d = "complex128" THEN <<"_argsort", "cpy_complex128">>
    ELSE IF d = "bool" THEN <<"_argsort", "cpy_bool">>
    ELSE NoInst

argsort_dispatch(d) ==
    IF d = "int8" THEN <<"_argsort", "cpy_byte">>
    ELSE IF d = "uint8" THEN <<"_argsort", "cpy_ubyte">>
    ELSE IF d = "int16" THEN <<"_argsort", "cpy_short">>
    ELSE IF d = "uint16" THEN <<"_argsort", "cpy_ushort">>
    ELSE IF d = "int32" THEN <<"_argsort", "cpy_int">>
    ELSE IF d = "uint32" THEN <<"_argsort", "cpy_uint">>
    ELSE IF d = "int64" THEN <<"_argsort", "cpy_long">>
    ELSE IF d = "uint64" THEN <<"_argsort", "cpy_ulong">>
    ELSE IF d = "float16" THEN <<"_argsort_fp16", "half">>
    ELSE IF d = "float32" THEN <<"_argsort", "cpy_float">>
    ELSE IF d = "float64" THEN <<"_argsort", "cpy_double">>
    ELSE IF d = "complex64" THEN <<"_argsort", "cpy_complex64">>
    ELSE IF d = "complex128" THEN <<"_argsort", "cpy_complex128">>
    ELSE IF d = "bool" THEN <<"_argsort", "cpy_bool">>
    ELSE NoInst

\* ------------------------------------------------------- entry points
\* Each entry point constructs its manager, runs the gate, then the chain.
\* A call that raises before a backend routine is invoked releases its
\* (empty) manager on the way out; otherwise the backend runs with it.
\* sort with the fp16 test placed after the chain.
sort_gate_late(c, d) ==
    /\ pc[c] = "idle"
    /\ LET b == BridgeOf(c)
           inst == sort_dispatch(d)
       IN  /\ op' = [op EXCEPT ![c] = "sort"]
           /\ dtype' = [dtype EXCEPT ![c] = d]
           /\ mem' = [mem EXCEPT ![c] = b]
           /\ memory' = [memory EXCEPT ![b] = EmptyDict]
           /\ IF inst = NoInst
              THEN /\ pc' = [pc EXCEPT ![c] = "raised"]
                   /\ error' = [error EXCEPT ![c] = "NotImplementedError"]
                   /\ UNCHANGED <<invoked, managers>>
              ELSE IF d = "float16" /\ fp16_unsupported(cc, ver)
              THEN /\ pc' = [pc EXCEPT ![c] = "raised"]
                   /\ error' = [error EXCEPT ![c] = "RuntimeError"]
                   /\ invoked' = [invoked EXCEPT ![c] = Append(@, inst)]
                   /\ UNCHANGED managers
              ELSE /\ pc' = [pc EXCEPT ![c] = "backend"]
                   /\ invoked' = [invoked EXCEPT ![c] = Append(@, inst)]
                   /\ managers' = managers \cup {b}
                   /\ UNCHANGED error
    /\ UNCHANGED <<cc, ver, allocs, allocCalls, last>>

sort(c, d) ==
    /\ pc[c] = "idle"
    /\ LET b == BridgeOf(c)
           inst == sort_dispatch(d)
       IN  /\ op' = [op EXCEPT ![c] = "sort"]
           /\ dtype' = [dtype EXCEPT ![c] = d]
           /\ mem' = [mem EXCEPT ![c] = b]
           /\ memory' = [memory EXCEPT ![b] = EmptyDict]
           /\ IF d = "float16" /\ fp16_unsupported(cc, ver)
              THEN /\ pc' = [pc EXCEPT ![c] = "raised"]
                   /\ error' = [error EXCEPT ![c] = "RuntimeError"]
                   /\ UNCHANGED <<invoked, managers>>
              ELSE IF inst = NoInst
              THEN /\ pc' = [pc EXCEPT ![c] = "raised"]
                   /\ error' = [error EXCEPT ![c] = "NotImplementedError"]
                   /\ UNCHANGED <<invoked, managers>>
              ELSE /\ pc' = [pc EXCEPT ![c] = "backend"]
                   /\ invoked' = [invoked EXCEPT ![c] = Append(@, inst)]
                   /\ managers' = managers \cup {b}
                   /\ UNCHANGED error
    /\ UNCHANGED <<cc, ver, allocs, allocCalls, last>>

lexsort(c, d) ==
    /\ pc[c] = "idle"
    /\ LET b == BridgeOf(c)
           inst == lexsort_dispatch(d)
       IN  /\ op' = [op EXCEPT ![c] = "lexsort"]
           /\ dtype' = [dtype EXCEPT ![c] = d]
           /\ mem' = [mem EXCEPT ![c] = b]
           /\ memory' = [memory EXCEPT ![b] = EmptyDict]
           /\ IF d = "float16" /\ fp16_unsupported(cc, ver)
              THEN /\ pc' = [pc EXCEPT ![c] = "raised"]
                   /\ error' = [error EXCEPT ![c] = "RuntimeError"]
                   /\ UNCHANGED <<invoked, managers>>
              ELSE IF inst = NoInst
              THEN /\ pc' = [pc EXCEPT ![c] = "raised"]
                   /\ error' = [error EXCEPT ![c] = "TypeError"]
                   /\ UNCHANGED <<invoked, managers>>
              ELSE /\ pc' = [pc EXCEPT ![c] = "backend"]
                   /\ invoked' = [invoked EXCEPT ![c] = Append(@, inst)]
                   /\ managers' = managers \cup {b}
                   /\ UNCHANGED error
    /\ UNCHANGED <<cc, ver, allocs, allocCalls, last>>

argsort(c, d) ==
    /\ pc[c] = "idle"
    /\ LET b == BridgeOf(c)
           inst == argsort_dispatch(d)
       IN  /\ op' = [op EXCEPT ![c] = "argsort"]
           /\ dtype' = [dtype EXCEPT ![c] = d]
           /\ mem' = [mem EXCEPT ![c] = b]
           /\ memory' = [memory EXCEPT ![b] = EmptyDict]
           /\ IF d = "float16" /\ fp16_unsupported(cc, ver)
              THEN /\ pc' = [pc EXCEPT ![c] = "raised"]
                   /\ error' = [error EXCEPT ![c] = "RuntimeError"]
                   /\ UNCHANGED <<invoked, managers>>
              ELSE IF inst = NoInst
              THEN /\ pc' = [pc EXCEPT ![c] = "raised"]
                   /\ error' = [error EXCEPT ![c] = "NotImplementedError"]
                   /\ UNCHANGED <<invoked, managers>>
              ELSE /\ pc' = [pc EXCEPT ![c] = "backend"]
                   /\ invoked' = [invoked EXCEPT ![c] = Append(@, inst)]
                   /\ managers' = managers \cup {b}
                   /\ UNCHANGED error
    /\ UNCHANGED <<cc, ver, allocs, allocCalls, last>>

\* ------------------------------------------------- the end of a call
\* The backend routine returns: the entry point returns None and drops
\* mem_obj, its dict and every allocation object the dict still holds.
BackendReturn(c) ==
    /\ pc[c] = "backend"
    /\ LET b == mem[c] IN
          /\ allocs' = Release(allocs, Values(memory[b]), 0)
          /\ memory' = [memory EXCEPT ![b] = EmptyDict]
          /\ managers' = managers \ {b}
    /\ pc' = [pc EXCEPT ![c] = "returned"]
    /\ UNCHANGED <<cc, ver, op, dtype, error, invoked, mem, allocCalls, last>>

\* The backend routine throws a C++ exception.  The extern declarations
\* carry no "except +", so the exception unwinds through the entry
\* point's frame, past the code that would drop mem_obj, and is turned
\* into a Python exception by the "except +" of the entry point itself.
\* The manager and the allocations in its dict are never released.
BackendThrow(c) ==
    /\ pc[c] = "backend"
    /\ pc' = [pc EXCEPT ![c] = "raised"]
    /\ error' = [error EXCEPT ![c] = "BackendError"]
    /\ UNCHANGED <<cc, ver, op, dtype, invoked, mem, managers, memory,
                   allocs, allocCalls, last>>

\* ------------------------------------------------------ specifications
\* One top-level call, every descriptor.
Next ==
    \/ \E d \in Dtypes : sort(1, d)
    \/ \E d \in Dtypes : lexsort(1, d)
    \/ \E d \in Dtypes : argsort(1, d)
    \/ \E s \in Sizes : cupy_malloc(1, s)
    \/ \E p \in Ptrs : cupy_free(1, p)
    \/ BackendReturn(1)
    \/ BackendThrow(1)

Spec == Init /\ [][Next]_vars

\* Several top-level calls whose callbacks interleave in any order.
ConcBounded == Len(allocs) <= ConcAllocs /\ allocCalls <= ConcAllocCalls

NextConc ==
    \/ \E c \in Calls, d \in FewDtypes : sort(c, d)
    \/ \E c \in Calls, d \in FewDtypes : lexsort(c, d)
    \/ \E c \in Calls, d \in FewDtypes : argsort(c, d)
    \/ \E c \in Calls, s \in Sizes : cupy_malloc(c, s) /\ ConcBounded'
    \/ \E c \in Calls, p \in Ptrs : cupy_free(c, p)
    \/ \E c \in Calls : BackendReturn(c)
    \/ \E c \in Calls : BackendThrow(c)

\* The gate plays no part there: the device is one that passes it.
InitConc == Init /\ cc = MinComputeCapability /\ ver = MinRuntimeVersion

SpecConc == InitConc /\ [][NextConc]_vars

\* ================================================================ claims
Ended(c) == pc[c] \in {"returned", "raised"}

\* The errors an entry point raises before it invokes a backend routine.
SetupErrors == {"RuntimeError", "NotImplementedError", "TypeError"}

\* The allocations that went into the dict of manager b.
AllocsOf(b) == {i \in DOMAIN allocs : allocs[i].by = b}

C2_NoneLiveAfterCall ==
    \A c \in Calls :
        Ended(c) => \A i \in AllocsOf(mem[c]) : allocs[i].rel = 1

\* ---------------------------------------------------------------- C3
\* C3: a call fails with the fp16 RuntimeError if and only if the dtype is
\* float16 and (compute capability < 53 or runtime version < 9020);
\* float16 on a device that passes reaches the fp16 routine; for every
\* other dtype, whether a backend routine is invoked depends on the dtype
\* alone.
C3_GateIff ==
    \A c \in Calls :
        pc[c] # "idle" =>
            /\ error[c] = "RuntimeError"
                   <=> (dtype[c] = "float16" /\ (cc < 53 \/ ver < 9020))
            /\ (dtype[c] = "float16" /\ cc >= 53 /\ ver >= 9020)
                   => invoked[c] = << <<"_" \o op[c] \o "_fp16", "half">> >>
            /\ dtype[c] # "float16"
                   => (invoked[c] # <<>> <=> dtype[c] \in SupportedDtypes)

\* The capability alone would do, the runtime version is too old.
C3_Witness ==
    /\ dtype[1] = "float16"
    /\ cc > 53
    /\ ver < 9020
    /\ pc[1] = "raised"
    /\ error[1] = "RuntimeError"

\* ---------------------------------------------------------------- C4
\* C4: a call that failed at setup time, with the fp16 RuntimeError or
\* with an unsupported-dtype error, has made no call to the external
\* allocator and has invoked no backend routine.
C4_SetupFailureTouchesNothing ==
    \A c \in Calls :
        (pc[c] = "raised" /\ error[c] \in SetupErrors)
            => /\ allocCalls = 0
               /\ allocs = <<>>
               /\ invoked[c] = <<>>

C4_Witness ==
    /\ op[1] = "sort"
    /\ dtype[1] = "float16"
    /\ pc[1] = "raised"
    /\ error[1] = "RuntimeError"

\* ---------------------------------------------------------------- C5
\* C5: a descriptor that is none of the 14 supported dtypes makes sort and
\* argsort raise NotImplementedError and lexsort raise TypeError, and no
\* backend routine is invoked for it.
C5_UnsupportedDtype ==
    \A c \in Calls :
        (pc[c] # "idle" /\ dtype[c] \notin SupportedDtypes)
            => /\ pc[c] = "raised"
               /\ error[c] = (IF op[c] = "lexsort" THEN "TypeError"
                              ELSE "NotImplementedError")
               /\ invoked[c] = <<>>

C5_Witness ==
    /\ op[1] = "lexsort"
    /\ dtype[1] = "object"
    /\ error[1] = "TypeError"

\* ---------------------------------------------------------------- C6
\* The element kind each supported dtype stands for.
KindOf(d) ==
    CASE d = "int8" -> "cpy_byte"
      [] d = "uint8" -> "cpy_ubyte"
      [] d = "int16" -> "cpy_short"
      [] d = "uint16" -> "cpy_ushort"
      [] d = "int32" -> "cpy_int"
      [] d = "uint32" -> "cpy_uint"
      [] d = "int64" -> "cpy_long"
      [] d = "uint64" -> "cpy_ulong"
      [] d = "float16" -> "half"
      [] d = "float32" -> "cpy_float"
      [] d = "float64" -> "cpy_double"
      [] d = "complex64" -> "cpy_complex64"
      [] d = "complex128" -> "cpy_complex128"
      [] d = "bool" -> "cpy_bool"

\* The chain of each entry point.
DispatchOf(o, d) ==
    IF o = "sort" THEN sort_dispatch(d)
    ELSE IF o = "lexsort" THEN lexsort_dispatch(d)
    ELSE argsort_dispatch(d)

\* C6: a call with a supported dtype that passes setup invokes exactly one
\* backend routine, the one of its own entry point instantiated for its
\* own element kind, and no other supported dtype given to the same entry
\* point is sent to that instantiation.
C6_DispatchExact ==
    \A c \in Calls :
        (pc[c] # "idle" /\ dtype[c] \in SupportedDtypes
              /\ error[c] \notin SetupErrors)
            => /\ Len(invoked[c]) = 1
               /\ invoked[c][1][2] = KindOf(dtype[c])
               /\ invoked[c][1][1] \in {"_" \o op[c], "_" \o op[c] \o "_fp16"}
               /\ \A d \in SupportedDtypes \ {dtype[c]} :
                      DispatchOf(op[c], d) # invoked[c][1]

C6_Witness ==
    /\ op[1] = "argsort"
    /\ dtype[1] = "int32"
    /\ invoked[1] = << <<"_argsort", "cpy_int">> >>

\* ---------------------------------------------------------------- C7
\* C7: when memory.alloc fails inside cupy_malloc, the failure reaches the
\* caller of the top-level operation: the call has ended with the
\* allocator's error, the callback did not return an address to a backend
\* that goes on.
C7_AllocFailurePropagates ==
    (last.kind = "malloc" /\ last.raised = "OutOfMemoryError")
        => \E c \in Calls : pc[c] = "raised" /\ error[c] = "OutOfMemoryError"

\* ---------------------------------------------------------------- C8
\* C8: cupy_malloc with size 0 returns the null address, makes no call to
\* the external allocator and leaves the dict and the allocations as they
\* are; cupy_free of the null address leaves both as they are; the null
\* address is never a key of a dict.
C8_NullNeverTracked ==
    /\ [][\A c \in Calls :
             cupy_malloc(c, 0)
                 => /\ last'.ret = 0
                    /\ last'.raised = "none"
                    /\ UNCHANGED <<memory, allocs, allocCalls>>]_vars
    /\ [][\A c \in Calls :
             cupy_free(c, 0) => UNCHANGED <<memory, allocs, allocCalls>>]_vars
    /\ [](\A b \in Calls : 0 \notin DOMAIN memory[b])

\* cupy_malloc(0) was called while the dict held an entry.
C8_Witness ==
    /\ last.kind = "malloc"
    /\ last.arg = 0
    /\ last.ret = 0
    /\ pc[1] = "backend"
    /\ DOMAIN memory[mem[1]] # {}

\* ---------------------------------------------------------------- C9
\* C9: while the backend of a call runs, every allocation cupy_malloc
\* returned is either the live value of its address in the dict, or was
\* removed by a cupy_free call given that same address and released once;
\* no allocation is released while the dict holds it; and cupy_free(a)
\* touches no entry and no allocation other than that of a.
C9_Tracked ==
    \A c \in Calls :
        pc[c] = "backend" =>
            LET d == memory[mem[c]] IN
            /\ \A i \in AllocsOf(mem[c]) :
                  \/ /\ allocs[i].rel = 0
                     /\ allocs[i].ptr \in DOMAIN d
                     /\ d[allocs[i].ptr] = i
                  \/ /\ allocs[i].rel = 1
                     /\ allocs[i].freed = allocs[i].ptr
                     /\ i \notin Values(d)
            /\ \A p \in DOMAIN d :
                  /\ d[p] \in AllocsOf(mem[c])
                  /\ allocs[d[p]].ptr = p
                  /\ allocs[d[p]].rel = 0

C9_FreeOnlyThat ==
    \A c \in Calls, a \in Ptrs :
        cupy_free(c, a) =>
            LET d == memory[mem[c]] IN
            /\ \A p \in (DOMAIN d) \ {a} :
                  p \in DOMAIN memory'[mem[c]] /\ memory'[mem[c]][p] = d[p]
            /\ \A i \in DOMAIN allocs :
                  allocs'[i] # allocs[i] => (a \in DOMAIN d /\ d[a] = i)

C9_MapInvariant == []C9_Tracked /\ [][C9_FreeOnlyThat]_vars

\* The external allocator reused an address: the first allocation at it
\* was freed, the second is live in the dict.
C9_Witness ==
    /\ pc[1] = "backend"
    /\ \E i, j \in DOMAIN allocs :
          /\ i < j
          /\ allocs[i].ptr = allocs[j].ptr
          /\ allocs[i].rel = 1
          /\ allocs[j].rel = 0
          /\ memory[mem[1]][allocs[j].ptr] = j

\* --------------------------------------------------------------- C10
CallStep(c) ==
    \/ \E d \in FewDtypes : sort(c, d) \/ lexsort(c, d) \/ argsort(c, d)
    \/ \E s \in Sizes : cupy_malloc(c, s)
    \/ \E p \in Ptrs : cupy_free(c, p)
    \/ BackendReturn(c)
    \/ BackendThrow(c)

\* C10: with calls interleaving, every call has a manager of its own, which
\* starts with an empty dict and is passed to at most one backend routine;
\* the dict and the allocations of a manager change only in steps of the
\* call that owns it.
C10_OwnManager ==
    /\ [](\A c1, c2 \in Calls :
             (c1 # c2 /\ mem[c1] # 0) => mem[c1] # mem[c2])
    /\ [](\A c \in Calls : Len(invoked[c]) <= 1)
    /\ [][\A c \in Calls :
             (pc[c] = "idle" /\ pc'[c] = "backend")
                 => /\ mem'[c] \notin managers
                    /\ memory'[mem'[c]] = EmptyDict
                    /\ AllocsOf(mem'[c]) = {}]_vars
    /\ [][\A b \in Calls :
             (memory'[b] # memory[b]
                  \/ \E i \in AllocsOf(b) : allocs'[i] # allocs[i])
                 => \E c \in Calls : mem'[c] = b /\ CallStep(c)]_vars

\* While the first call's backend runs with an entry in its dict, a second
\* call has run its backend, had a cupy_free of that very address fail
\* and returned: the first call's entry is still there and live.
C10_Witness ==
    /\ pc[1] = "backend"
    /\ pc[2] = "returned"
    /\ last.kind = "free"
    /\ last.raised = "KeyError"
    /\ last.arg \in DOMAIN memory[mem[1]]
    /\ allocs[memory[mem[1]][last.arg]].rel = 0

====
